---- MODULE Spec2Model ----
(***************************************************************************)
(* A model of src/app.py, the Streamlit question-answering script over a   *)
(* Chroma vector index: ingestion of chunks.jsonl into the persisted       *)
(* collection, the cached load-or-build step, the chat input handler       *)
(* (retrieval, filtering, context assembly, generation call, history) and  *)
(* the statistics panel.                                                   *)
(*                                                                         *)
(* Data representation.  A JSON scalar is a record [t, s]: t is its type   *)
(* ("str" or "int") and s its text, so that str() is a real conversion.    *)
(* A dict is a function whose domain is the set of keys present.  A text   *)
(* passage is [head, rest]: head stands for its first 400 characters and   *)
(* rest for what follows them.  Questions and answers are strings.         *)
(* The file chunks.jsonl is [exists, readable, lines]: it may be missing,  *)
(* or present and impossible to open for reading (a directory of that      *)
(* name, a file without read permission).                                  *)
(*                                                                         *)
(* A question turn takes up to three steps: the script run stores the user *)
(* message and blocks in collection.query, then blocks in                  *)
(* client.messages.create, then stores the answer and shows the            *)
(* statistics.  While it is blocked the other session's script runs, the   *)
(* process may end, and a rerun of the same session may be requested, in   *)
(* which case the run is stopped at its next st.* call.  A rerun request  *)
(* stops a script run at whichever st.* call it reaches next: before the   *)
(* load-or-build step, inside its body, before the chat input, right after *)
(* the user message is stored, before the answer is stored, or in the      *)
(* statistics panel.  The stop is an exception that except Exception does  *)
(* not catch; a cached function stopped that way caches nothing.           *)
(*                                                                         *)
(* The body of build_and_load_database takes one step to open or create    *)
(* the store and one step per collection.add: each batch is persisted when *)
(* its call returns, so a process that ends during the build leaves the    *)
(* batches written so far in the store.                                    *)
(***************************************************************************)
EXTENDS Integers, Sequences, FiniteSets, TLC

VARIABLES
    chunks,      \* the file chunks.jsonl: [exists, readable, lines]
    secrets,     \* TRUE when st.secrets holds ANTHROPIC_API_KEY
    db,          \* the persisted store ./chroma_data: [exists, entries]
    cache,       \* st.cache_resource entry of build_and_load_database
    docs_cache,  \* st.cache_resource entry of get_available_documents
    lock,        \* holder of the cache's compute lock, or NoSession
    pc,          \* per session: position of its current script run: "idle",
                 \* "building", "writing", "loaded", "querying" or
                 \* "generating"
    messages,    \* per session: st.session_state.messages
    run,         \* per session: what the last script run showed
    turn,        \* the last question turn of the process, as observed;
                 \* outcome is "none", "pending", "answered", "no_results",
                 \* "error" or "interrupted"
    build,       \* the last execution of build_and_load_database's body;
                 \* kind is "running" while it is in its read loop and
                 \* "interrupted" when a rerun request stopped it
    ingested,    \* the entries of the store after each completed build
    restarts,    \* number of process restarts so far
    scenario     \* what the environment does: [sessions, turns, restarts,
                 \* questions]

vars == <<chunks, secrets, db, cache, docs_cache, lock, pc, messages, run,
          turn, build, ingested, restarts, scenario>>

----------------------------------------------------------------------------
(* Bounds of the model *)

MaxTail == 2        \* records that follow the filler records in the stream
MaxTurns == 2       \* questions submitted per process lifetime
MaxRestarts == 1    \* process restarts

(* Program constants *)

batch_size == 50        \* app.py:74
OVERFETCH == 10         \* app.py:230, n_results of the filtered query
TOP_K == 3              \* app.py:240 and app.py:252
UNIT_COST == 20         \* app.py:330, 0.002 dollars in units of 0.0001

Sessions == {1, 2}
NoSession == 0

----------------------------------------------------------------------------
(* JSON values, dicts *)

S(x) == [t |-> "str", s |-> x]
I(x) == [t |-> "int", s |-> x]

\* str(v)
Str(v) == [t |-> "str", s |-> v.s]

\* d.get(k, default)
Get(d, k, default) == IF k \in DOMAIN d THEN d[k] ELSE default

EmptyDict == [k \in {} |-> S("")]
EmptyText == [head |-> 0, rest |-> 0]

\* content[:400]
Prefix400(content) == content.head

\* hashlib.sha1(...).hexdigest(): a digest determined by its input
Sha1(x) == <<"sha1", x>>

----------------------------------------------------------------------------
(* The chunk stream *)

JsonLine(c) == [kind |-> "json", chunk |-> c]
BlankLine == [kind |-> "blank"]
BadLine == [kind |-> "bad"]

\* the i-th filler record: distinct passages of document A
Filler(i) ==
    JsonLine([content |-> [head |-> 10 + i, rest |-> 0],
              metadata |-> [source |-> S("A"), page |-> I("1"), type |-> S("text")]])

FillerSeq(n) == [i \in 1..n |-> Filler(i)]

recA == JsonLine([content |-> [head |-> 1, rest |-> 0],
                  metadata |-> [source |-> S("A"), page |-> S("1"), type |-> S("text")]])
\* same first 400 characters as recA, different continuation
recA2 == JsonLine([content |-> [head |-> 1, rest |-> 1],
                   metadata |-> [source |-> S("A"), page |-> S("1"), type |-> S("text")]])
\* no "type" key, integer page
recB == JsonLine([content |-> [head |-> 2, rest |-> 0],
                  metadata |-> [source |-> S("B"), page |-> I("2")]])
\* no "source" key
recN == JsonLine([content |-> [head |-> 3, rest |-> 0],
                  metadata |-> [page |-> S("7"), type |-> S("table")]])

TailPool == {recA, recA2, recB, BlankLine, BadLine}

Tails == UNION {[1..k -> TailPool] : k \in 0..MaxTail}

\* what follows a batch that is one record short of full
LongTails ==
    {<<recA>>, <<recA, recA>>, <<recA, BadLine>>, <<recA, recB, recB>>,
     <<BadLine>>, <<recB, recN>>}

Streams ==
    Tails \cup {<<recN>>, <<recN, recB>>}
          \cup {FillerSeq(batch_size - 1) \o t : t \in LongTails}

----------------------------------------------------------------------------
(* Chunk identity, app.py:85-90 *)

chunk_id(content, meta) ==
    LET src == Str(Get(meta, "source", S("")))
        page == Str(Get(meta, "page", S("")))
        typ == Str(Get(meta, "type", S("")))
        h == Sha1(Prefix400(content))
    IN  <<src.s, page.s, typ.s, h>>

----------------------------------------------------------------------------
(* The collection: a sequence of entries [id, document, metadata] in       *)
(* insertion order.                                                        *)

SeqRange(s) == {s[i] : i \in 1..Len(s)}

HasDuplicates(s) == \E i, j \in 1..Len(s) : i < j /\ s[i] = s[j]

EntryIds(entries) == {entries[i].id : i \in 1..Len(entries)}

\* collection.add with a store that inserts every record it is given
CollectionAddInsertAll(entries, ids, documents, metadatas) ==
    [ok |-> TRUE,
     entries |-> entries \o [j \in 1..Len(ids) |->
                    [id |-> ids[j], document |-> documents[j], metadata |-> metadatas[j]]]]

\* collection.add(ids=, documents=, metadatas=), app.py:100 and app.py:107:
\* a batch that repeats an identifier is refused whole (DuplicateIDError);
\* otherwise the records whose identifier the collection does not hold yet
\* are inserted and the others are left as they are.
CollectionAdd(entries, ids, documents, metadatas) ==
    IF HasDuplicates(ids)
    THEN [ok |-> FALSE, entries |-> entries]
    ELSE LET batch == [j \in 1..Len(ids) |->
                         [id |-> ids[j], document |-> documents[j], metadata |-> metadatas[j]]]
             held == EntryIds(entries)
         IN  [ok |-> TRUE,
              entries |-> entries \o SelectSeq(batch, LAMBDA e : e.id \notin held)]

----------------------------------------------------------------------------
(* The read loop of build_and_load_database, app.py:69-107.  The loop      *)
(* state st is [entries, batch_ids, batch_docs, batch_metas, total_chunks, *)
(* writes, error]; writes lists the batches handed to collection.add.      *)

LoopStart(entries) ==
    [entries |-> entries, batch_ids |-> <<>>, batch_docs |-> <<>>,
     batch_metas |-> <<>>, total_chunks |-> 0, writes |-> <<>>, error |-> "none"]

\* one collection.add of the buffered batch, app.py:100 and app.py:107;
\* the buffers stay as they are
Write(st) ==
    LET r == CollectionAdd(st.entries, st.batch_ids, st.batch_docs, st.batch_metas)
        w == [ids |-> st.batch_ids, documents |-> st.batch_docs,
              metadatas |-> st.batch_metas]
    IN  IF r.ok
        THEN [st EXCEPT !.entries = r.entries, !.writes = Append(@, w)]
        ELSE [st EXCEPT !.writes = Append(@, w), !.error = "DuplicateIDError"]

\* app.py:99-103: the write of a full batch inside the loop, then the
\* buffers are cleared
Flush(st) ==
    LET st1 == Write(st)
    IN  IF st1.error = "none"
        THEN [st1 EXCEPT !.batch_ids = <<>>, !.batch_docs = <<>>, !.batch_metas = <<>>]
        ELSE st1

\* app.py:78-103 for one line
ReadLine(st, line) ==
    IF line.kind = "blank" THEN st
    ELSE IF line.kind = "bad" THEN [st EXCEPT !.error = "JSONDecodeError"]
    ELSE LET chunk == line.chunk
             content == Get(chunk, "content", EmptyText)
             meta == Get(chunk, "metadata", EmptyDict)
             st1 == [st EXCEPT !.batch_ids = Append(@, chunk_id(content, meta)),
                               !.batch_docs = Append(@, content),
                               !.batch_metas = Append(@, meta),
                               !.total_chunks = @ + 1]
         IN  IF Len(st1.batch_ids) >= batch_size THEN Flush(st1) ELSE st1

RECURSIVE ReadFrom(_, _, _)
ReadFrom(lines, i, st) ==
    IF st.error # "none" THEN st
    ELSE IF i > Len(lines)
         THEN \* app.py:106-107: the remaining batch is written, not cleared
              IF st.batch_ids # <<>> THEN Write(st) ELSE st
         ELSE ReadFrom(lines, i + 1, ReadLine(st, lines[i]))

Ingest(entries, lines) == ReadFrom(lines, 1, LoopStart(entries))

----------------------------------------------------------------------------
(* The body of build_and_load_database, app.py:35-110.  open_fails is the  *)
(* outcome of client.get_collection on an existing store (app.py:44-51).   *)
(* The result names how the body ended, what it left in the store and how  *)
(* many records its buffers hold at the end.                               *)

NoBuild ==
    [kind |-> "none", session |-> NoSession, writes |-> <<>>,
     total_chunks |-> 0, buffered |-> 0, error |-> "none", rerun |-> FALSE]

build_and_load_database(store, file, open_fails) ==
    IF store.exists /\ ~open_fails
    THEN \* app.py:42-49
         [kind |-> "loaded", db |-> store, writes |-> <<>>, total_chunks |-> 0,
          buffered |-> 0, error |-> "none"]
    ELSE IF ~file.exists
    THEN \* app.py:56-58: st.error, st.stop
         [kind |-> "stopped", db |-> store, writes |-> <<>>, total_chunks |-> 0,
          buffered |-> 0, error |-> "chunks.jsonl not found!"]
    ELSE IF ~file.readable
    THEN \* app.py:61-76: the collection is created, then open() raises
         [kind |-> "failed", db |-> [exists |-> TRUE, entries |-> store.entries],
          writes |-> <<>>, total_chunks |-> 0, buffered |-> 0, error |-> "OSError"]
    ELSE \* app.py:60-110
         LET st == Ingest(store.entries, file.lines)
         IN  [kind |-> IF st.error = "none" THEN "built" ELSE "failed",
              db |-> [exists |-> TRUE, entries |-> st.entries],
              writes |-> st.writes, total_chunks |-> st.total_chunks,
              buffered |-> Len(st.batch_ids), error |-> st.error]

----------------------------------------------------------------------------
(* get_available_documents, app.py:113-129 *)

\* a listing that offers 'Unknown' whatever the stream holds
DocumentsOfWithUnknown(lines) ==
    {S("Unknown")} \cup
    {Get(Get(lines[i].chunk, "metadata", EmptyDict), "source", S("Unknown")) :
        i \in {j \in 1..Len(lines) : lines[j].kind = "json"}}

\* the sources of the lines read before the first line that fails to parse
\* (app.py:118-127: the exception ends the loop and is swallowed)
DocumentsOf(lines) ==
    LET bad == {i \in 1..Len(lines) : lines[i].kind = "bad"}
        read == {i \in 1..Len(lines) : lines[i].kind = "json" /\ \A b \in bad : i < b}
    IN  {Get(Get(lines[i].chunk, "metadata", EmptyDict), "source", S("Unknown")) :
            i \in read}

\* sorted(): the order of the strings the streams use
SortedNames == <<S("A"), S("B"), S("Unknown")>>
Sorted(set) == SelectSeq(SortedNames, LAMBDA x : x \in set)

get_available_documents(file) ==
    IF ~file.exists \/ ~file.readable
    THEN \* app.py:119, 126-127: open() raises and the exception is swallowed
         <<>>
    ELSE Sorted(DocumentsOf(file.lines))

----------------------------------------------------------------------------
(* collection.query(query_texts=[q], n_results=n), app.py:230 and 252:     *)
(* the n entries nearest to the question, nearest first.  The embedding    *)
(* places a question and a passage on a line; ties keep insertion order.   *)

Questions == {"q1", "q2"}
NoInput == "none"

Embed(q) == IF q = "q1" THEN 1 ELSE 12

Abs(x) == IF x < 0 THEN -x ELSE x

Distance(q, document) == Abs(Embed(q) - document.head)

Min(a, b) == IF a < b THEN a ELSE b

\* f as a sequence of length n
AsSeq(f, n) == SubSeq(f, 1, n)

\* the distance of the n-th nearest of more than n entries
Reach(dist, n) ==
    CHOOSE d \in SeqRange(dist) :
        /\ Cardinality({k \in 1..Len(dist) : dist[k] < d}) < n
        /\ Cardinality({k \in 1..Len(dist) : dist[k] <= d}) >= n

\* the positions of the n nearest entries: those within reach, and the
\* oldest of those at reach
Near(dist, n, reach) ==
    SelectSeq(AsSeq([j \in 1..Len(dist) |-> j], Len(dist)),
              LAMBDA j : \/ dist[j] < reach
                         \/ /\ dist[j] = reach
                            /\ Cardinality({k \in 1..Len(dist) : dist[k] < reach})
                               + Cardinality({k \in 1..j : dist[k] = reach}) <= n)

\* nearest first, the older entry first among equally near ones
Ranked(entries, dist, near) ==
    AsSeq([i \in 1..Len(near) |->
             entries[CHOOSE j \in SeqRange(near) :
                        Cardinality({k \in SeqRange(near) :
                            \/ dist[k] < dist[j]
                            \/ dist[k] = dist[j] /\ k < j}) = i - 1]],
          Len(near))

QueryResult(ranked) ==
    [documents |-> AsSeq([i \in 1..Len(ranked) |-> ranked[i].document], Len(ranked)),
     metadatas |-> AsSeq([i \in 1..Len(ranked) |-> ranked[i].metadata], Len(ranked))]

Distances(entries, q) ==
    AsSeq([j \in 1..Len(entries) |-> Distance(q, entries[j].document)], Len(entries))

NearestOf(entries, dist, n) ==
    IF Len(entries) <= n
    THEN Ranked(entries, dist, AsSeq([j \in 1..Len(dist) |-> j], Len(dist)))
    ELSE Ranked(entries, dist, Near(dist, n, Reach(dist, n)))

CollectionQuery(entries, q, n) ==
    QueryResult(NearestOf(entries, Distances(entries, q), n))

----------------------------------------------------------------------------
(* The chat input handler, app.py:221-316 *)

ALL == S("All Documents")

\* the value of meta.get('source') when the key is absent
None == [t |-> "none", s |-> ""]

LLM_ANSWER == "answer of the model"
NO_DOCUMENTS ==
    "No relevant documents found for your question. Try asking about a different topic or select 'All Documents' to search broadly."
NoInformation(filter_option) ==
    "No relevant information found in '" \o filter_option.s \o "' about your question."

\* the scan without the test on the source: the first three candidates
FilterFromUnfiltered(documents, metadatas, filter_option, i, kept) ==
    [docs |-> SubSeq(documents, 1, Min(TOP_K, Len(documents))),
     metas |-> SubSeq(metadatas, 1, Min(TOP_K, Len(metadatas)))]

\* the scan without the break: every candidate of the selected document
FilterFromNoBreak(documents, metadatas, filter_option, i, kept) ==
    LET n == Min(Len(documents), Len(metadatas))
        hits == SelectSeq(AsSeq([j \in 1..n |-> j], n),
                          LAMBDA j : Get(metadatas[j], "source", None) = filter_option)
    IN  [docs |-> [k \in 1..Len(hits) |-> documents[hits[k]]],
         metas |-> [k \in 1..Len(hits) |-> metadatas[hits[k]]]]

\* app.py:236-241: scan in rank order, keep the candidates of the selected
\* document, stop at three
RECURSIVE FilterFrom(_, _, _, _, _)
FilterFrom(documents, metadatas, filter_option, i, kept) ==
    IF i > Min(Len(documents), Len(metadatas)) THEN kept
    ELSE IF Get(metadatas[i], "source", None) = filter_option
         THEN LET kept1 == [docs |-> Append(kept.docs, documents[i]),
                            metas |-> Append(kept.metas, metadatas[i])]
              IN  IF Len(kept1.docs) >= TOP_K THEN kept1
                  ELSE FilterFrom(documents, metadatas, filter_option, i + 1, kept1)
         ELSE FilterFrom(documents, metadatas, filter_option, i + 1, kept)

\* app.py:228-255: the names the retrieval branch binds, with the
\* candidates the index returned
Retrieve(entries, q, filter_option) ==
    IF filter_option # ALL
    THEN LET all_results == CollectionQuery(entries, q, OVERFETCH)
             kept == FilterFrom(all_results.documents, all_results.metadatas,
                                filter_option, 1, [docs |-> <<>>, metas |-> <<>>])
         IN  IF kept.docs = <<>>
             THEN [candidates |-> all_results,
                   locals |-> [answer |-> NoInformation(filter_option),
                               sources |-> <<>>]]
             ELSE [candidates |-> all_results,
                   locals |-> [results_docs |-> kept.docs,
                               results_metas |-> kept.metas,
                               found_results |-> TRUE]]
    ELSE LET results == CollectionQuery(entries, q, TOP_K)
         IN  [candidates |-> results,
              locals |-> [results_docs |-> results.documents,
                          results_metas |-> results.metadatas,
                          found_results |-> TRUE]]

\* context assembly that cites only the passages that name their source
AssembleCitesNamedOnly(results_docs, results_metas) ==
    LET n == Min(Len(results_docs), Len(results_metas))
        block(i) == [label |-> i,
                     source |-> Str(Get(results_metas[i], "source", S("Unknown"))).s,
                     page |-> Str(Get(results_metas[i], "page", S("Unknown"))).s,
                     type |-> Str(Get(results_metas[i], "type", S("text"))).s,
                     doc |-> results_docs[i]]
        cite(m) == [source |-> m.source, page |-> Get(m, "page", S("Unknown")),
                    type |-> Get(m, "type", S("text"))]
        named == SelectSeq(SubSeq(results_metas, 1, n), LAMBDA m : "source" \in DOMAIN m)
    IN  [context |-> [i \in 1..n |-> block(i)],
         sources |-> [i \in 1..Len(named) |-> cite(named[i])]]

\* app.py:259-272: the labelled blocks of the context and the citations
Assemble(results_docs, results_metas) ==
    LET n == Min(Len(results_docs), Len(results_metas))
        source_name(i) == Get(results_metas[i], "source", S("Unknown"))
        page_num(i) == Get(results_metas[i], "page", S("Unknown"))
        doc_type(i) == Get(results_metas[i], "type", S("text"))
    IN  [context |-> [i \in 1..n |->
                        [label |-> i, source |-> Str(source_name(i)).s,
                         page |-> Str(page_num(i)).s, type |-> Str(doc_type(i)).s,
                         doc |-> results_docs[i]]],
         sources |-> [i \in 1..n |->
                        [source |-> source_name(i), page |-> page_num(i),
                         type |-> doc_type(i)]]]

UserMessage(q) == [role |-> "user", content |-> q]
AssistantMessage(answer, sources) ==
    [role |-> "assistant", content |-> answer, sources |-> sources]

QueryCall(q, n) == [op |-> "query", text |-> q, n_results |-> n]

\* a prompt made of the best-ranked passage only
PromptFirstOnly(context, q) ==
    [documents |-> SubSeq(context, 1, Min(1, Len(context))), question |-> q]

\* app.py:275-282: the excerpts, then the question
Prompt(context, q) == [documents |-> context, question |-> q]

\* a request that carries the chat history before the prompt
RequestMessagesWithHistory(history, prompt) ==
    [i \in 1..Len(history) |-> [role |-> history[i].role, content |-> history[i].content]]
        \o <<[role |-> "user", content |-> prompt]>>

\* app.py:287-290: the messages of the request: the prompt alone
RequestMessages(history, prompt) == <<[role |-> "user", content |-> prompt]>>

GenerateCall(history, prompt) ==
    [op |-> "generate", prompt |-> prompt,
     messages |-> RequestMessages(history, prompt)]

\* a client that sends the request a second time
GenerationRepeated(history, prompt) ==
    <<GenerateCall(history, prompt), GenerateCall(history, prompt)>>

\* app.py:284-291: the calls of client.messages.create in one turn
Generation(history, prompt) == <<GenerateCall(history, prompt)>>

NoPrompt == [documents |-> <<>>, question |-> NoInput]

\* what a turn leaves behind; outcome is "answered", "no_results" or "error"
TurnResult(history, outcome, error, answer, r, passages, a, prompt, calls) ==
    [messages |-> history, outcome |-> outcome, error |-> error, answer |-> answer,
     candidates |-> r.candidates, passages |-> passages, context |-> a.context,
     sources |-> a.sources, prompt |-> prompt, calls |-> calls]

NoCandidates == [candidates |-> [documents |-> <<>>, metadatas |-> <<>>]]
NoPassages == [docs |-> <<>>, metas |-> <<>>]
NoContext == [context |-> <<>>, sources |-> <<>>]

\* an error handler that records the failure as an assistant message
HistoryOnErrorSynthetic(msgs, history) ==
    Append(history, [role |-> "assistant", content |-> "Error", sources |-> <<>>])

\* an error handler that clears the chat
HistoryOnErrorCleared(msgs, history) == <<>>

\* app.py:222, 315-316: the history an error leaves: the user message stays
HistoryOnError(msgs, history) == history

\* app.py:230 and 252: the call of collection.query of a turn
Query(q, filter_option) ==
    <<QueryCall(q, IF filter_option # ALL THEN OVERFETCH ELSE TOP_K)>>

\* the whole turn, from the question to the history it leaves, when the
\* script run is not stopped on the way.
\* retrieved is what app.py:228-255 binds when collection.query returns;
\* query_fails and gen_fails say which of the two service calls raises
Handler(msgs, retrieved, q, filter_option, query_fails, gen_fails) ==
    LET history == Append(msgs, UserMessage(q))
        query == Query(q, filter_option)
    IN  IF query_fails
        THEN TurnResult(HistoryOnError(msgs, history), "error", "RetrievalFailed", "",
                        NoCandidates, NoPassages, NoContext, NoPrompt, query)
        ELSE
        LET r == retrieved
        IN  IF "found_results" \notin DOMAIN r.locals
            THEN \* app.py:257 reads a name the branch app.py:243-245 never bound
                 TurnResult(HistoryOnError(msgs, history), "error", "NameError", "",
                            r, NoPassages, NoContext, NoPrompt, query)
            ELSE IF r.locals.found_results /\ r.locals.results_docs # <<>>
            THEN LET passages == [docs |-> r.locals.results_docs,
                                  metas |-> r.locals.results_metas]
                     a == Assemble(passages.docs, passages.metas)
                     prompt == Prompt(a.context, q)
                     calls == query \o Generation(history, prompt)
                 IN  IF gen_fails
                     THEN TurnResult(HistoryOnError(msgs, history), "error",
                                     "GenerationFailed", "", r, passages, a, prompt, calls)
                     ELSE TurnResult(Append(history, AssistantMessage(LLM_ANSWER, a.sources)),
                                     "answered", "none", LLM_ANSWER, r, passages, a,
                                     prompt, calls)
            ELSE \* app.py:294-296
                 TurnResult(Append(history, AssistantMessage(NO_DOCUMENTS, <<>>)),
                            "no_results", "none", NO_DOCUMENTS, r, NoPassages,
                            NoContext, NoPrompt, query)

----------------------------------------------------------------------------
(* The statistics panel, app.py:318-333 *)

Metric(label, value) == [label |-> label, value |-> value]

DigitChars == <<"0", "1", "2", "3", "4", "5", "6", "7", "8", "9">>

RECURSIVE Decimal(_)
Decimal(n) ==
    IF n < 10 THEN DigitChars[n + 1]
    ELSE Decimal(n \div 10) \o DigitChars[(n % 10) + 1]

\* f"${cost:.4f}" of a cost given in units of 0.0001 dollars
FormatCost(units) ==
    "$" \o Decimal(units \div 10000) \o "."
        \o DigitChars[((units \div 1000) % 10) + 1]
        \o DigitChars[((units \div 100) % 10) + 1]
        \o DigitChars[((units \div 10) % 10) + 1]
        \o DigitChars[(units % 10) + 1]

\* app.py:322-324
DocumentStats(available_docs) ==
    IF available_docs # <<>>
    THEN <<Metric("Total Documents", Len(available_docs))>>
    ELSE <<>>

\* the panel counting every message of the history
StatsAllMessages(available_docs, msgs) ==
    DocumentStats(available_docs) \o
    (IF Len(msgs) > 0
     THEN <<Metric("Questions Asked", Len(msgs)),
            Metric("Estimated Cost", FormatCost(Len(msgs) * UNIT_COST))>>
     ELSE <<>>)

\* the st.metric calls of the panel, app.py:322-333
Stats(available_docs, msgs) ==
    LET q_count == Cardinality({i \in 1..Len(msgs) : msgs[i].role = "user"})
    IN  DocumentStats(available_docs) \o
        (IF q_count > 0
         THEN <<Metric("Questions Asked", q_count),
                Metric("Estimated Cost", FormatCost(q_count * UNIT_COST))>>
         ELSE <<>>)

----------------------------------------------------------------------------------------------------------------------------------------
(* The state machine: script runs of the sessions of one process *)

\* what is kept of the question turn before the last one
NoPrior ==
    [q |-> NoInput, filter_option |-> ALL, outcome |-> "none", error |-> "none",
     calls |-> <<>>, passages |-> NoPassages, prompt |-> NoPrompt]

NoTurn ==
    [session |-> NoSession, q |-> NoInput, filter_option |-> ALL, before |-> <<>>,
     prior |-> NoPrior, rerun |-> FALSE,
     outcome |-> "none", error |-> "none", answer |-> "",
     candidates |-> [documents |-> <<>>, metadatas |-> <<>>],
     passages |-> NoPassages, context |-> <<>>, sources |-> <<>>,
     prompt |-> NoPrompt, calls |-> <<>>]

NoRun == [result |-> "none", metrics |-> <<>>]

UserCount(msgs) == Cardinality({i \in 1..Len(msgs) : msgs[i].role = "user"})

\* questions submitted in this process lifetime
Asked == UserCount(messages[1]) + UserCount(messages[2])

\* streams of well-formed records for the question scenarios
SessionStreams ==
    {<<>>, <<recB>>, <<recA, recB>>, <<recB, recN, recA>>,
     <<recN, recA2, recB, recA>>,
     <<recB, Filler(1), recN, Filler(2)>>,
     FillerSeq(batch_size - 1) \o <<recB>>,
     FillerSeq(batch_size - 1) \o <<recA, recB, recN>>}

Fresh ==
    /\ db = [exists |-> FALSE, entries |-> <<>>]
    /\ cache = FALSE
    /\ docs_cache = [hit |-> FALSE, docs |-> <<>>]
    /\ lock = NoSession
    /\ pc = [s \in Sessions |-> "idle"]
    /\ messages = [s \in Sessions |-> <<>>]     \* app.py:30-31
    /\ run = [s \in Sessions |-> NoRun]
    /\ turn = NoTurn
    /\ build = NoBuild
    /\ ingested = <<>>
    /\ restarts = 0

\* one user, one process lifetime, MaxTurns submissions of one question
InitSession ==
    /\ chunks \in {[exists |-> TRUE, readable |-> TRUE, lines |-> l] : l \in SessionStreams}
    /\ secrets \in BOOLEAN
    /\ scenario = [sessions |-> {1}, turns |-> MaxTurns, restarts |-> 0,
                   questions |-> {"q1"}]
    /\ Fresh

\* one session starting up on any stream, restarts, one question per
\* process
Init ==
    /\ chunks \in {[exists |-> FALSE, readable |-> FALSE, lines |-> <<>>],
                   [exists |-> TRUE, readable |-> FALSE, lines |-> <<>>]}
                     \cup {[exists |-> TRUE, readable |-> TRUE, lines |-> l] : l \in Streams}
    /\ secrets = TRUE
    /\ scenario = [sessions |-> {1}, turns |-> 1, restarts |-> MaxRestarts,
                   questions |-> Questions]
    /\ Fresh

\* streams for two sessions: empty, complete, and aborted after one record
SharedStreams == {<<>>, <<recA, recB>>, <<recB, recA, recA>>, <<recA, BadLine>>}

\* two sessions of one process sharing the cached collection, restarts, one
\* question per process
InitShared ==
    /\ chunks \in {[exists |-> FALSE, readable |-> FALSE, lines |-> <<>>]}
                     \cup {[exists |-> TRUE, readable |-> TRUE, lines |-> l] :
                              l \in SharedStreams}
    /\ secrets = TRUE
    /\ scenario = [sessions |-> Sessions, turns |-> 1, restarts |-> MaxRestarts,
                   questions |-> Questions]
    /\ Fresh

\* the cache's compute lock taken without a test
LockFreeUnguarded == TRUE

\* @st.cache_resource, app.py:34: the body runs under the cache's lock
LockFree == lock = NoSession

FilterOptions(available_docs) == <<ALL>> \o available_docs

\* the turn a submitted question opens: the user message is stored
\* (app.py:222) and the script run is blocked in collection.query
Pending(s, q, filter_option) ==
    [NoTurn EXCEPT !.session = s, !.q = q, !.filter_option = filter_option,
                   !.before = messages[s],
                   !.prior = [q |-> turn.q, filter_option |-> turn.filter_option,
                              outcome |-> turn.outcome, error |-> turn.error,
                              calls |-> turn.calls, passages |-> turn.passages,
                              prompt |-> turn.prompt],
                   !.outcome = "pending",
                   !.calls = Query(q, filter_option)]

\* the run is stopped by a rerun request at the st.* call it has reached
Interrupted == [result |-> "interrupted", metrics |-> <<>>]

\* app.py:139-333: the script from get_available_documents on, with the
\* widget inputs of this run: to the statistics panel when no question is
\* submitted, to the call of collection.query when one is
Render(s) ==
    LET available_docs == IF docs_cache.hit THEN docs_cache.docs
                          ELSE get_available_documents(chunks)
    IN  /\ docs_cache' = [hit |-> TRUE, docs |-> available_docs]
        /\ \/ \* a rerun request stops the run at an st.* call of
              \* app.py:145-221, before the chat input is read
              /\ run' = [run EXCEPT ![s] = Interrupted]
              /\ pc' = [pc EXCEPT ![s] = "idle"]
              /\ UNCHANGED <<messages, turn>>
           \/ IF ~secrets
              THEN \* app.py:142-147
                   /\ run' = [run EXCEPT ![s] = [result |-> "API key not found",
                                                 metrics |-> <<>>]]
                   /\ pc' = [pc EXCEPT ![s] = "idle"]
                   /\ UNCHANGED <<messages, turn>>
              ELSE \/ \* app.py:150-155: anthropic.Anthropic raises
                      /\ run' = [run EXCEPT ![s] = [result |-> "API Error",
                                                    metrics |-> <<>>]]
                      /\ pc' = [pc EXCEPT ![s] = "idle"]
                      /\ UNCHANGED <<messages, turn>>
                   \/ \* no chat input in this run
                      /\ run' = [run EXCEPT ![s] =
                                   [result |-> "rendered",
                                    metrics |-> Stats(available_docs, messages[s])]]
                      /\ pc' = [pc EXCEPT ![s] = "idle"]
                      /\ UNCHANGED <<messages, turn>>
                   \/ \* a question is submitted, app.py:221-230
                      /\ Asked < scenario.turns
                      /\ \E q \in scenario.questions,
                            filter_option \in SeqRange(FilterOptions(available_docs)) :
                           /\ messages' = [messages EXCEPT
                                             ![s] = Append(@, UserMessage(q))]
                           /\ \/ \* the run reaches collection.query and blocks
                                 /\ turn' = Pending(s, q, filter_option)
                                 /\ run' = [run EXCEPT ![s] =
                                              [result |-> "running",
                                               metrics |-> <<>>]]
                                 /\ pc' = [pc EXCEPT ![s] = "querying"]
                              \/ \* a rerun request stops the run at
                                 \* app.py:223 or app.py:225: the user
                                 \* message is stored, the index is not
                                 \* queried
                                 /\ turn' = [Pending(s, q, filter_option) EXCEPT
                                                !.outcome = "interrupted",
                                                !.calls = <<>>, !.rerun = TRUE]
                                 /\ run' = [run EXCEPT ![s] = Interrupted]
                                 /\ pc' = [pc EXCEPT ![s] = "idle"]

\* the end of a turn's script run.  h is the turn as the handler computes
\* it.  A rerun request stops the run at the st.* call it reaches next.
\* Requested while the run was blocked, or before the answer is shown, it
\* stops the run at app.py:299 (app.py:316 after an exception): nothing
\* more is stored or shown.  Requested after the answer is stored
\* (app.py:309) or the error shown (app.py:316), it stops the run in the
\* statistics panel, app.py:319.
EndTurn(s, h) ==
    /\ pc' = [pc EXCEPT ![s] = "idle"]
    /\ \/ /\ turn' = [turn EXCEPT !.outcome = "interrupted", !.error = h.error,
                                  !.candidates = h.candidates,
                                  !.passages = h.passages, !.context = h.context,
                                  !.sources = h.sources, !.prompt = h.prompt,
                                  !.calls = h.calls, !.rerun = TRUE]
          /\ run' = [run EXCEPT ![s] = Interrupted]
          /\ UNCHANGED messages
       \/ /\ ~turn.rerun
          /\ \E panel_stopped \in BOOLEAN :
               /\ turn' = [turn EXCEPT !.outcome = h.outcome, !.error = h.error,
                                       !.answer = h.answer,
                                       !.candidates = h.candidates,
                                       !.passages = h.passages,
                                       !.context = h.context,
                                       !.sources = h.sources, !.prompt = h.prompt,
                                       !.calls = h.calls,
                                       !.rerun = panel_stopped]
               /\ messages' = [messages EXCEPT ![s] = h.messages]
               /\ run' = [run EXCEPT ![s] =
                            IF panel_stopped THEN Interrupted
                            ELSE [result |-> "rendered",
                                  metrics |-> Stats(docs_cache.docs, h.messages)]]

\* collection.query returns or raises, app.py:230-296: with passages the
\* run goes on to client.messages.create and blocks there; otherwise the
\* turn ends
QueryReturns(s) ==
    /\ pc[s] = "querying"
    /\ \E query_fails \in BOOLEAN :
         LET h == Handler(turn.before, Retrieve(db.entries, turn.q, turn.filter_option),
                          turn.q, turn.filter_option, query_fails, FALSE)
         IN  IF h.outcome = "answered"
             THEN /\ turn' = [turn EXCEPT !.candidates = h.candidates,
                                          !.passages = h.passages,
                                          !.context = h.context,
                                          !.sources = h.sources,
                                          !.prompt = h.prompt, !.calls = h.calls]
                  /\ pc' = [pc EXCEPT ![s] = "generating"]
                  /\ UNCHANGED <<messages, run>>
             ELSE EndTurn(s, h)
    /\ UNCHANGED <<chunks, secrets, db, cache, docs_cache, lock, build, ingested,
                   restarts, scenario>>

\* client.messages.create returns or raises, app.py:284-316
GenerationReturns(s) ==
    /\ pc[s] = "generating"
    /\ \E gen_fails \in BOOLEAN :
         EndTurn(s, Handler(turn.before,
                            Retrieve(db.entries, turn.q, turn.filter_option),
                            turn.q, turn.filter_option, FALSE, gen_fails))
    /\ UNCHANGED <<chunks, secrets, db, cache, docs_cache, lock, build, ingested,
                   restarts, scenario>>

\* the user touches a widget while the script run is blocked in a library
\* call (collection.add, collection.query, client.messages.create): the
\* script runner notes the request and stops the run at its next st.* call
RequestRerun(s) ==
    /\ \/ /\ pc[s] \in {"querying", "generating"}
          /\ ~turn.rerun
          /\ turn' = [turn EXCEPT !.rerun = TRUE]
          /\ UNCHANGED build
       \/ /\ pc[s] = "writing"
          /\ ~build.rerun
          /\ build' = [build EXCEPT !.rerun = TRUE]
          /\ UNCHANGED turn
    /\ UNCHANGED <<chunks, secrets, db, cache, docs_cache, lock, pc, messages, run,
                   ingested, restarts, scenario>>

\* a rerun request stops a script run before it reaches the load-or-build
\* step, at an st.* call of app.py:8-28
RunStopped(s) ==
    /\ s \in scenario.sessions
    /\ pc[s] = "idle"
    /\ run' = [run EXCEPT ![s] = Interrupted]
    /\ UNCHANGED <<chunks, secrets, db, cache, docs_cache, lock, pc, messages,
                   turn, build, ingested, restarts, scenario>>

\* a script run that finds the collection in the cache, app.py:30-353
RunCached(s) ==
    /\ s \in scenario.sessions
    /\ pc[s] = "idle"
    /\ cache
    /\ Render(s)
    /\ UNCHANGED <<chunks, secrets, db, cache, lock, build, ingested, restarts,
                   scenario>>

\* a script run that misses the cache enters the body, app.py:133
BeginBuild(s) ==
    /\ s \in scenario.sessions
    /\ pc[s] = "idle"
    /\ ~cache
    /\ LockFree
    /\ lock' = s
    /\ pc' = [pc EXCEPT ![s] = "building"]
    /\ UNCHANGED <<chunks, secrets, db, cache, docs_cache, messages, run, turn,
                   build, ingested, restarts, scenario>>

\* how an execution of the body that ended as r shows: the collection is
\* returned and cached (app.py:49, app.py:110), or the run halts (st.stop at
\* app.py:58, or the exception reported at app.py:134-136).  When a rerun
\* request stops the run at the st.* call that precedes the return
\* (app.py:48, app.py:109) or that reports the halt (app.py:57,
\* app.py:135), nothing is cached and nothing is reported.
EndBuild(s, r, stopped) ==
    LET kind == IF stopped /\ r.kind # "failed" THEN "interrupted" ELSE r.kind
        error == IF stopped /\ r.kind # "failed" THEN "RerunException" ELSE r.error
        returned == kind \in {"loaded", "built"}
    IN  /\ db' = r.db
        /\ build' = [kind |-> kind, session |-> s,
                     writes |-> r.writes, total_chunks |-> r.total_chunks,
                     buffered |-> r.buffered, error |-> error, rerun |-> stopped]
        /\ cache' = (cache \/ returned)
        /\ ingested' = IF kind = "built" THEN Append(ingested, r.db.entries)
                       ELSE ingested
        /\ pc' = [pc EXCEPT ![s] = IF returned THEN "loaded" ELSE "idle"]
        /\ run' = IF returned THEN run
                  ELSE [run EXCEPT ![s] =
                          IF stopped THEN Interrupted
                          ELSE [result |-> IF kind = "stopped" THEN r.error
                                           ELSE "Database error",
                                metrics |-> <<>>]]
        /\ lock' = NoSession

\* the body stopped at an st.write before it creates anything, app.py:43-54
Untouched(store) ==
    [kind |-> "interrupted", db |-> store, writes |-> <<>>, total_chunks |-> 0,
     buffered |-> 0, error |-> "RerunException"]

\* app.py:42-76: an existing store is opened and returned; or, with no
\* chunks.jsonl, the run halts; or the directory and the collection are
\* created and chunks.jsonl is opened: the read loop starts, or open() raises.
\* A rerun request stops the run at an st.write of the body ("body") or at
\* the st.error that reports the exception of open() ("report").
OpenStore(s) ==
    /\ pc[s] = "building"
    /\ \E open_fails \in BOOLEAN, stopped_at \in {"none", "body", "report"} :
         /\ open_fails => db.exists
         /\ LET r == build_and_load_database(db, chunks, open_fails)
            IN  IF stopped_at = "body"
                THEN EndBuild(s, Untouched(db), TRUE)
                ELSE IF stopped_at = "report"
                THEN r.kind = "failed" /\ ~chunks.readable /\ EndBuild(s, r, TRUE)
                ELSE IF r.kind \in {"loaded", "stopped"} \/ ~chunks.readable
                THEN EndBuild(s, r, FALSE)
                ELSE /\ db' = [exists |-> TRUE, entries |-> db.entries]
                     /\ build' = [NoBuild EXCEPT !.kind = "running", !.session = s]
                     /\ pc' = [pc EXCEPT ![s] = "writing"]
                     /\ UNCHANGED <<cache, ingested, run, lock>>
    /\ UNCHANGED <<chunks, secrets, docs_cache, messages, turn, restarts, scenario>>

\* the body as it runs from the read loop on, over the store as it is now
Body == build_and_load_database(db, chunks, TRUE)

\* one collection.add of the read loop returns or raises, app.py:100 and
\* app.py:107: the store holds the batch from here on, whatever becomes of
\* the process
AddBatch(s) ==
    /\ pc[s] = "writing"
    /\ Len(build.writes) < Len(Body.writes)
    /\ LET w == Body.writes[Len(build.writes) + 1]
           r == CollectionAdd(db.entries, w.ids, w.documents, w.metadatas)
       IN  /\ db' = [exists |-> TRUE, entries |-> r.entries]
           /\ build' = [build EXCEPT !.writes = Append(@, w)]
    /\ UNCHANGED <<chunks, secrets, cache, docs_cache, lock, pc, messages, run,
                   turn, ingested, restarts, scenario>>

\* the read loop is over, app.py:104-110, or an exception left it
\* (json.loads at app.py:81, collection.add) and is reported at
\* app.py:134-136; a rerun requested during the loop stops the run at the
\* st.write of app.py:109, after the last collection.add, or at the
\* st.error of app.py:135
FinishBuild(s) ==
    /\ pc[s] = "writing"
    /\ Len(build.writes) = Len(Body.writes)
    /\ EndBuild(s, Body, build.rerun)
    /\ UNCHANGED <<chunks, secrets, docs_cache, messages, turn, restarts, scenario>>

\* the rest of the run of the session that loaded the collection
Continue(s) ==
    /\ pc[s] = "loaded"
    /\ Render(s)
    /\ UNCHANGED <<chunks, secrets, db, cache, lock, build, ingested, restarts,
                   scenario>>

\* the process ends and a new one starts: caches and sessions are gone,
\* the files stay, the store with the batches written so far included
Restart ==
    /\ restarts < scenario.restarts
    /\ restarts' = restarts + 1
    /\ cache' = FALSE
    /\ docs_cache' = [hit |-> FALSE, docs |-> <<>>]
    /\ lock' = NoSession
    /\ pc' = [s \in Sessions |-> "idle"]
    /\ messages' = [s \in Sessions |-> <<>>]
    /\ run' = [s \in Sessions |-> NoRun]
    /\ turn' = NoTurn
    /\ build' = NoBuild
    /\ UNCHANGED <<chunks, secrets, db, ingested, scenario>>

NextSession ==
    \/ \E s \in Sessions : RunCached(s)
    \/ \E s \in Sessions : BeginBuild(s)
    \/ \E s \in Sessions : OpenStore(s)
    \/ \E s \in Sessions : AddBatch(s)
    \/ \E s \in Sessions : FinishBuild(s)
    \/ \E s \in Sessions : Continue(s)
    \/ \E s \in Sessions : QueryReturns(s)
    \/ \E s \in Sessions : GenerationReturns(s)
    \/ \E s \in Sessions : RequestRerun(s)
    \/ \E s \in Sessions : RunStopped(s)

Next ==
    \/ NextSession
    \/ Restart

\* startup, ingestion and restarts of a process with one session
Spec == Init /\ [][Next]_vars

\* startup and restarts of a process with two sessions
SpecShared == InitShared /\ [][Next]_vars

\* the question turns of one session
SpecSession == InitSession /\ [][NextSession]_vars

----------------------------------------------------------------------------
(* Properties of the question turn, checked under SpecSession *)

LastMessage(s) == messages[s][Len(messages[s])]

\* the script run of the last turn came to its end
Ended == turn.outcome \in {"answered", "no_results", "error"}

\* the last turn is past its service calls, its run ended or was stopped
Over == turn.outcome \in {"answered", "no_results", "error", "interrupted"}

Generated == {i \in 1..Len(turn.calls) : turn.calls[i].op = "generate"}

\* the candidates of the last turn whose source is the selected document
Matching ==
    {i \in 1..Len(turn.candidates.metadatas) :
        Get(turn.candidates.metadatas[i], "source", None) = turn.filter_option}

\* C1: when the generation call fails, the turn is reported as a failure and
\* the session history is as long as it was before the question was
\* submitted: nothing, not even the user message, is appended.
C1_FailedGenerationLeavesHistory ==
    (Ended /\ turn.error = "GenerationFailed") =>
        /\ turn.outcome = "error"
        /\ Len(messages[turn.session]) = Len(turn.before)

\* C2: a filtered turn in which no over-fetched candidate belongs to the
\* selected document completes without an error: no passages, the explicit
\* "no relevant information" answer with an empty citation list, and no
\* generation request.
C2_EmptyFilteredTurnCompletes ==
    (/\ Ended
     /\ turn.filter_option # ALL
     /\ turn.error # "RetrievalFailed"
     /\ Matching = {})
    => /\ turn.outcome = "no_results"
       /\ turn.error = "none"
       /\ turn.passages = NoPassages
       /\ turn.answer = NoInformation(turn.filter_option)
       /\ LastMessage(turn.session) =
             AssistantMessage(NoInformation(turn.filter_option), <<>>)
       /\ Generated = {}

\* C3: every passage a filtered retrieval hands to context assembly belongs
\* to the selected document, and there are at most TOP_K of them, whatever
\* the ranking of the other documents' chunks.
C3_FilteredPassagesMatch ==
    turn.filter_option # ALL =>
        /\ Len(turn.passages.docs) <= TOP_K
        /\ Len(turn.passages.metas) = Len(turn.passages.docs)
        /\ \A i \in 1..Len(turn.passages.metas) :
              /\ "source" \in DOMAIN turn.passages.metas[i]
              /\ turn.passages.metas[i].source = turn.filter_option
        /\ Len(turn.context) <= TOP_K
        /\ \A i \in 1..Len(turn.context) :
              turn.context[i].source = turn.filter_option.s

\* a filtered turn that kept TOP_K passages out of more matching candidates,
\* with a chunk of another document ranked before a kept one
C3_Witness ==
    /\ turn.filter_option # ALL
    /\ Len(turn.passages.docs) = TOP_K
    /\ Cardinality(Matching) > TOP_K
    /\ \E i \in 1..Len(turn.candidates.metadatas), j \in Matching :
          i < j /\ i \notin Matching /\ j <= Len(turn.candidates.metadatas)

\* C8: an answer made from passages cites each passage of the context once,
\* in order: citation i carries source, page and type of the passage
\* labelled i (absent fields as 'Unknown', 'Unknown', 'text'), and the list
\* is stored as the assistant message's sources.
C8_CitationParity ==
    turn.outcome = "answered" =>
        /\ Len(turn.sources) = Len(turn.passages.docs)
        /\ Len(turn.context) = Len(turn.passages.docs)
        /\ turn.prompt.documents = turn.context
        /\ \A i \in 1..Len(turn.passages.docs) :
              LET m == turn.passages.metas[i]
                  c == turn.sources[i]
              IN  /\ turn.context[i].label = i
                  /\ turn.context[i].doc = turn.passages.docs[i]
                  /\ c.source = IF "source" \in DOMAIN m THEN m.source ELSE S("Unknown")
                  /\ c.page = IF "page" \in DOMAIN m THEN m.page ELSE S("Unknown")
                  /\ c.type = IF "type" \in DOMAIN m THEN m.type ELSE S("text")
                  /\ turn.context[i].source = c.source.s
                  /\ turn.context[i].page = c.page.s
                  /\ turn.context[i].type = c.type.s
        /\ LastMessage(turn.session).role = "assistant"
        /\ LastMessage(turn.session).sources = turn.sources

\* an answer from several passages, one without a source and one without a type
C8_Witness ==
    /\ turn.outcome = "answered"
    /\ Len(turn.passages.docs) >= 2
    /\ \E i, j \in 1..Len(turn.passages.metas) :
          /\ "source" \notin DOMAIN turn.passages.metas[i]
          /\ "type" \notin DOMAIN turn.passages.metas[j]

\* C9: a failed turn (the index query or the generation call raised) is
\* caught and reported, appends no assistant message, leaves the messages
\* stored before it unchanged, and the session takes the next question.
C9_FailedTurnKeepsSession ==
    turn.outcome = "error" =>
        /\ turn.error # "none"
        /\ messages[turn.session] = Append(turn.before, UserMessage(turn.q))
        /\ pc[turn.session] = "idle"
        /\ run[turn.session].result \in {"rendered", "API Error", "interrupted"}
        /\ Asked < scenario.turns => ENABLED RunCached(turn.session)

\* a question answered right after a question whose service call failed
C9_Witness ==
    /\ turn.outcome = "answered"
    /\ turn.prior.outcome = "error"
    /\ Len(turn.before) = 1
    /\ turn.before[1].role = "user"
    /\ Len(messages[turn.session]) = 3

\* C10: the statistics panel shows the number of user messages of the
\* history as the question count and that count times the unit cost as the
\* estimated cost; after n questions that all succeeded the count is n.
C10_StatsCountQuestions ==
    \A s \in Sessions :
        (run[s].result = "rendered" /\ messages[s] # <<>>) =>
            LET shown == run[s].metrics
                counts == SelectSeq(shown, LAMBDA m : m.label = "Questions Asked")
                costs == SelectSeq(shown, LAMBDA m : m.label = "Estimated Cost")
                answered == {i \in 1..Len(messages[s]) : messages[s][i].role = "assistant"}
            IN  /\ Len(counts) = 1
                /\ Len(costs) = 1
                /\ counts[1].value = UserCount(messages[s])
                /\ costs[1].value = FormatCost(counts[1].value * UNIT_COST)
                /\ (Len(messages[s]) = 2 * Cardinality(answered))
                      => counts[1].value = Cardinality(answered)

\* two questions answered, then the panel
C10_Witness ==
    /\ run[1].result = "rendered"
    /\ Len(messages[1]) = 4
    /\ messages[1][2].role = "assistant"
    /\ messages[1][4].role = "assistant"
    /\ \E n \in 1..3 :
          run[1].metrics = <<Metric("Total Documents", n),
                             Metric("Questions Asked", 2),
                             Metric("Estimated Cost", "$0.0040")>>

----------------------------------------------------------------------------
(* Properties of ingestion and startup, checked under Spec *)

JsonLines(lines) == {i \in 1..Len(lines) : lines[i].kind = "json"}

LineId(line) ==
    chunk_id(Get(line.chunk, "content", EmptyText),
             Get(line.chunk, "metadata", EmptyDict))

StreamIds(lines) == {LineId(lines[i]) : i \in JsonLines(lines)}

WellFormed(lines) == \A i \in 1..Len(lines) : lines[i].kind # "bad"

\* two records of the stream with the same source, page, type and content
Repeated(lines) ==
    {i \in JsonLines(lines) : \E j \in JsonLines(lines) : j # i /\ lines[j] = lines[i]}

EntriesWithId(entries, id) == {i \in 1..Len(entries) : entries[i].id = id}

\* the store holds some but not all records of the stream
PartialIndex ==
    /\ db.entries # <<>>
    /\ ~(StreamIds(chunks.lines) \subseteq EntryIds(db.entries))

\* C4: once a run over the stream has completed, the store holds the same
\* identifiers and the same number of entries at every later moment, none
\* of them twice, whatever rebuilds run over it (completed, in progress, or
\* stopped by a rerun request); no rebuild fails, and every completed run
\* leaves the entries of the first.
C4_ReingestionKeepsEntries ==
    /\ \A i \in 1..Len(ingested) :
          /\ EntryIds(ingested[i]) = EntryIds(ingested[1])
          /\ Len(ingested[i]) = Len(ingested[1])
          /\ Cardinality(EntryIds(ingested[i])) = Len(ingested[i])
    /\ ingested # <<>> =>
          /\ build.kind # "failed"
          /\ EntryIds(db.entries) = EntryIds(ingested[1])
          /\ Len(db.entries) = Len(ingested[1])
          /\ build.kind \in {"built", "running", "interrupted"}
                => \A i \in 1..Len(build.writes) :
                      \A j \in 1..Len(build.writes[i].ids) :
                         build.writes[i].ids[j] \in EntryIds(ingested[1])

\* a second completed run over more than one batch of entries
C4_Witness ==
    /\ Len(ingested) >= 2
    /\ Len(ingested[1]) > batch_size
    /\ build.kind = "built"
    /\ Len(build.writes) >= 2

\* C5: a stream of well-formed records two of which are identical is
\* ingested to the end, and the index then holds exactly one entry for their
\* identifier, whether they share a batch or not.
C5_RepeatedRecordOneEntry ==
    (/\ build.kind \in {"built", "failed"}
     /\ WellFormed(chunks.lines)
     /\ Repeated(chunks.lines) # {})
    => /\ build.kind = "built"
       /\ \A i \in Repeated(chunks.lines) :
             Cardinality(EntriesWithId(db.entries, LineId(chunks.lines[i]))) = 1

\* C6: once an ingestion run has aborted with part of the stream written,
\* no later script run answers a question from that partial index: the next
\* startup rebuilds it completely or halts.
C6_PartialIndexNotServed ==
    PartialIndex => turn.outcome \notin {"answered", "no_results"}

\* C7: the load-or-build step is never executed by two sessions at once, and
\* once it has returned a collection in this process, no later script run or
\* question turn opens or rebuilds the index again.
C7_LoadOrBuildOnce ==
    /\ [](Cardinality({s \in Sessions : pc[s] \in {"building", "writing"}}) <= 1)
    /\ [][(cache /\ restarts' = restarts) =>
            /\ cache'
            /\ db' = db
            /\ build' = build
            /\ ingested' = ingested
            /\ \A s \in Sessions : pc'[s] \notin {"building", "writing"}]_vars

\* a question of session 2 answered from the collection session 1 built,
\* after session 1 has run again
C7_Witness ==
    /\ cache
    /\ build.kind = "built"
    /\ build.session = 1
    /\ run[1].result = "rendered"
    /\ turn.session = 2
    /\ turn.outcome = "answered"

----------------------------------------------------------------------------
(* Properties of the session history and of the empty index, checked under *)
(* SpecSession                                                             *)

IsPrefix(a, b) == Len(a) <= Len(b) /\ SubSeq(b, 1, Len(a)) = a

\* C11: the session history is append-only: over every step of a session
\* (a question turn that succeeds, finds nothing or fails, or a rerun of the
\* script) the history before the step is a prefix of the history after it,
\* so no stored message is edited, reordered or removed.
C11_HistoryAppendOnly ==
    [][\A s \in Sessions : IsPrefix(messages[s], messages'[s])]_vars

\* a history that grew over a failed turn and then over an answered one
C11_Witness ==
    /\ Len(messages[1]) = 3
    /\ messages[1][1].role = "user"
    /\ messages[1][2].role = "user"
    /\ messages[1][3].role = "assistant"
    /\ messages[1][3].sources # <<>>
    /\ IsPrefix(turn.before, messages[1])

\* C12: with an empty chunk stream the index is built with no entry, the
\* document list is empty, the only filter is 'All Documents', no turn
\* issues a generation request, and every turn whose index query returns
\* and whose script run comes to its end is answered "no relevant documents
\* found": that answer stored with no citation, and no error.
C12_EmptyStreamNoResults ==
    chunks.lines = <<>> =>
        /\ db.entries = <<>>
        /\ build.kind = "built" => build.writes = <<>> /\ build.total_chunks = 0
        /\ docs_cache.docs = <<>>
        /\ turn.outcome # "none" =>
              /\ turn.filter_option = ALL
              /\ turn.error \in {"none", "RetrievalFailed"}
              /\ Generated = {}
              /\ (Ended /\ turn.error = "none") =>
                    /\ turn.outcome = "no_results"
                    /\ turn.answer = NO_DOCUMENTS
                    /\ turn.sources = <<>>
                    /\ Generated = {}
                    /\ LastMessage(turn.session) = AssistantMessage(NO_DOCUMENTS, <<>>)

\* two questions asked of the empty index, both answered "no documents"
C12_Witness ==
    /\ chunks.lines = <<>>
    /\ build.kind = "built"
    /\ docs_cache.hit
    /\ turn.outcome = "no_results"
    /\ Len(messages[1]) = 4
    /\ messages[1][2] = AssistantMessage(NO_DOCUMENTS, <<>>)

\* the positions of the index queries among the calls of the last turn
Queried == {i \in 1..Len(turn.calls) : turn.calls[i].op = "query"}

\* C14: in a turn the generation request comes after the index query, and
\* its prompt holds the question and one block for every passage retained
\* by retrieval and filtering, in order: the context and the citation list
\* are complete before the request, which is never made of a part of the
\* retained passages.
C14_GenerationAfterAssembly ==
    \A i \in Generated :
        /\ \E j \in Queried : j < i
        /\ turn.error \in {"none", "GenerationFailed"}
        /\ turn.passages.docs # <<>>
        /\ turn.calls[i].prompt = turn.prompt
        /\ turn.calls[i].messages = <<[role |-> "user", content |-> turn.prompt]>>
        /\ turn.prompt.question = turn.q
        /\ Len(turn.prompt.documents) = Len(turn.passages.docs)
        /\ Len(turn.sources) = Len(turn.passages.docs)
        /\ \A k \in 1..Len(turn.passages.docs) :
              /\ turn.prompt.documents[k].label = k
              /\ turn.prompt.documents[k].doc = turn.passages.docs[k]

\* a generation request made from three passages kept by the filter
C14_Witness ==
    /\ Generated = {2}
    /\ Queried = {1}
    /\ turn.filter_option # ALL
    /\ turn.calls[1].n_results = OVERFETCH
    /\ Len(turn.prompt.documents) = TOP_K
    /\ turn.outcome = "answered"

MatchingRanks ==
    SelectSeq(AsSeq([j \in 1..Len(turn.candidates.metadatas) |-> j],
                    Len(turn.candidates.metadatas)),
              LAMBDA j : j \in Matching)

\* C17: in a filtered turn whose index query returned, the retained
\* passages are the first min(TOP_K, m) of the m candidates of the selected
\* document among the at most OVERFETCH ranked candidates, in rank order;
\* with one or two matching candidates all of them are retained and
\* retrieval raises no error.
C17_FilteredTopMatches ==
    (/\ turn.outcome # "none"
     /\ turn.filter_option # ALL
     /\ turn.error # "RetrievalFailed")
    => LET m == Len(MatchingRanks)
           k == Min(TOP_K, m)
       IN  /\ Len(turn.candidates.documents) <= OVERFETCH
           /\ Len(turn.candidates.metadatas) = Len(turn.candidates.documents)
           /\ Len(turn.passages.docs) = k
           /\ Len(turn.passages.metas) = k
           /\ \A i \in 1..k :
                 /\ turn.passages.docs[i] = turn.candidates.documents[MatchingRanks[i]]
                 /\ turn.passages.metas[i] = turn.candidates.metadatas[MatchingRanks[i]]
           /\ m >= 1 => turn.error \in {"none", "GenerationFailed"}

\* two candidates of the selected document, both retained, ranked after
\* candidates of other documents
C17_Witness ==
    /\ turn.filter_option # ALL
    /\ turn.outcome = "answered"
    /\ Len(MatchingRanks) = 2
    /\ Len(turn.passages.docs) = 2
    /\ MatchingRanks[1] > 1
    /\ Len(turn.candidates.documents) > 2

\* the index query of a recorded turn, if it was issued
QueryOf(t) == IF t.calls = <<>> THEN <<>> ELSE <<t.calls[1]>>

\* the generation requests of a recorded turn
GenerationsOf(t) == SelectSeq(t.calls, LAMBDA c : c.op = "generate")

\* C19: retrieval and the prompt depend on the question, the filter and the
\* index only: a question asked again with the same filter, after a history
\* that has grown in between, issues the same index query, retains the same
\* passages and sends the same prompt in the same request.  Compared are
\* the turns that reached their index query; a turn stopped by a rerun
\* request before it (app.py:223, app.py:225) retrieves nothing.
C19_HistoryIndependentRetrieval ==
    (/\ Over
     /\ turn.prior.outcome \in {"answered", "no_results", "error", "interrupted"}
     /\ turn.calls # <<>>
     /\ turn.prior.calls # <<>>
     /\ turn.prior.q = turn.q
     /\ turn.prior.filter_option = turn.filter_option
     /\ turn.error # "RetrievalFailed"
     /\ turn.prior.error # "RetrievalFailed")
    => /\ turn.before # <<>>
       /\ QueryOf(turn) = QueryOf(turn.prior)
       /\ turn.passages = turn.prior.passages
       /\ turn.prompt = turn.prior.prompt
       /\ GenerationsOf(turn) = GenerationsOf(turn.prior)

\* the same filtered question answered twice from passages, the second
\* time over a history of two messages
C19_Witness ==
    /\ turn.outcome = "answered"
    /\ turn.prior.q = turn.q
    /\ turn.prior.filter_option = turn.filter_option
    /\ turn.filter_option # ALL
    /\ turn.prior.error = "none"
    /\ Len(turn.before) = 2
    /\ Len(turn.passages.docs) >= 2

\* the name get_available_documents lists for a chunk with this metadata
ListedName(meta) == Get(meta, "source", S("Unknown"))

\* the candidates of the last turn listed under the selected name
ListedAs == {i \in 1..Len(turn.candidates.metadatas) :
                ListedName(turn.candidates.metadatas[i]) = turn.filter_option}

\* C20: a listed document name selects the chunks it was derived from: in a
\* filtered turn every candidate whose listed name (its metadata.source, or
\* 'Unknown' without one) is the selected name passes the filter's
\* comparison, so that such candidates are never all excluded.
C20_ListedNameSelectsItsChunks ==
    (/\ Over
     /\ turn.filter_option # ALL
     /\ turn.error # "RetrievalFailed")
    => /\ ListedAs \subseteq Matching
       /\ ListedAs # {} => turn.passages.docs # <<>>

----------------------------------------------------------------------------
(* Properties of startup on an unavailable stream, checked under Spec *)

\* chunks.jsonl cannot be opened: it is missing, or open() raises on it
Unavailable == ~chunks.exists \/ ~chunks.readable

\* C13: while the chunk stream cannot be opened and no persisted index
\* exists, every build attempt halts the script run with an explicit error
\* before a collection is created or written, and no script run, this one
\* or a later one, gets as far as accepting a question.
C13_UnavailableStreamHalts ==
    Unavailable =>
        /\ ~db.exists
        /\ ~cache
        /\ build.kind \in {"none", "stopped"}
        /\ \A s \in Sessions :
              /\ pc[s] # "loaded"
              /\ run[s].result \in {"none", "chunks.jsonl not found!", "Database error"}
        /\ turn.outcome = "none"

----------------------------------------------------------------------------
(* Properties of the batched writes and of malformed lines, checked under  *)
(* Spec                                                                    *)

\* the records of the stream: its non-blank lines, in order
Records(lines) == SelectSeq(lines, LAMBDA l : l.kind = "json")

\* C16: a stream of n well-formed non-blank records is ingested in
\* ceil(n / batch_size) calls of collection.add; every call carries between
\* 1 and batch_size records with as many ids as documents and metadatas,
\* every call but the last carries batch_size of them, the batches put end
\* to end are the records in stream order, the buffer is empty after the
\* last write, and the run ends reporting n chunks.
C16_BatchedWrites ==
    (/\ build.kind \in {"built", "failed"}
     /\ chunks.readable
     /\ WellFormed(chunks.lines))
    => LET recs == Records(chunks.lines)
           n == Len(recs)
           w == build.writes
       IN  /\ build.kind = "built"
           /\ build.total_chunks = n
           /\ build.buffered = 0
           /\ Len(w) = (n + batch_size - 1) \div batch_size
           /\ \A i \in 1..Len(w) :
                 /\ Len(w[i].ids) \in 1..batch_size
                 /\ Len(w[i].documents) = Len(w[i].ids)
                 /\ Len(w[i].metadatas) = Len(w[i].ids)
                 /\ i < Len(w) => Len(w[i].ids) = batch_size
                 /\ \A j \in 1..Len(w[i].ids) :
                       LET r == recs[(i - 1) * batch_size + j].chunk
                       IN  /\ w[i].ids[j] = chunk_id(r.content, r.metadata)
                           /\ w[i].documents[j] = r.content
                           /\ w[i].metadatas[j] = r.metadata

\* the lines of the stream that do not parse
Malformed(lines) == {i \in 1..Len(lines) : lines[i].kind = "bad"}

\* C18: a stream with exactly one line that does not parse is ingested to
\* the end: the run completes and every well-formed record, before and
\* after that line, is in the index.
C18_MalformedLineSkipped ==
    (/\ build.kind \in {"built", "failed"}
     /\ Cardinality(Malformed(chunks.lines)) = 1)
    => /\ build.kind = "built"
       /\ StreamIds(chunks.lines) \subseteq EntryIds(db.entries)

====
